---- MODULE Spec2Model ----
(***************************************************************************)
(* Model of the force measurement rig firmware core: the framed packet     *)
(* protocol (packet.h), the interrupt-driven serial transport with its     *)
(* ring buffers and the HX711 load cell sampler (platform.c), and the test *)
(* harness that checks the CRC and loops the sender into the parser        *)
(* (test.c).                                                               *)
(***************************************************************************)
EXTENDS Integers, Sequences, FiniteSets, TLC

\* ------------------------------------------------------------------ bounds
\* Longest payload handed to packet_send.
MaxLen == 2
\* Number of garbage bytes injected in one behaviour.
MaxGarbage == 1

\* Ring buffer sizes, scaled down from g_buf_tx[200] and g_buf_rx[500].
TxBufSize == 2
RxBufSize == 2
\* platform_serial_write calls in one behaviour and the longest write.
MaxWrites == 2
MaxWriteSize == 3
\* Bytes received by the USART and platform_serial_read calls in one behaviour.
MaxRx == 4
MaxReads == 4

\* Payload byte values handed to packet_send ('1' and the first magic byte).
PayloadBytes == {49, 180}
\* Byte values injected as line noise (the first magic byte and a zero).
GarbageBytes == {180, 0}
\* Longest message the CRC harness builds byte by byte, and its byte values.
MaxCrcLen == 3
CrcBytes == {0, 49, 255}
\* Bytes of an arbitrary stream fed to the parser, and their values: the four
\* magic bytes, the sizes 0, 1 and 255.
MaxStream == 10
StreamBytes == {180, 76, 236, 242, 0, 1, 255}
\* Bit flipped in a payload byte by the corrupting channel.
CorruptBits == {128}
\* Bytes platform_serial_write reads beyond the end of the data it was given
\* before the exploration of that call stops, and the values such a read can
\* return.
MaxOverrun == 2
OutOfBounds == {0, 255}

\* ------------------------------------------------------- program constants
\* PACKET_MAGIC 0xF2EC4CB4 as its two 16-bit halves, 0xF2EC and 0x4CB4 (TLC's
\* integers are 32-bit signed).
PACKET_MAGIC_HI == 62188
PACKET_MAGIC_LO == 19636
PAYLOAD_CAPACITY == 255
CRC16_CCITT_FALSE_INITIAL_VALUE == 65535
CRC16_CCITT_FALSE_RESIDUE == 0
CRC16_CCITT_FALSE_POLY == 4129

\* --------------------------------------------------------------- variables
VARIABLES
    parser,     \* struct packet_parser
    g_buffer,   \* bytes emitted by the writer and not yet parsed
    fed,        \* history: every byte passed to packet_parse, in order
    results,    \* history: the value returned by each packet_parse call
    stages,     \* history: parser.stage on entry to each packet_parse call
    cur,        \* history: the frame being fed and how it was preceded
    garbage,    \* history: the garbage run since the last frame
    g_fifo_tx,  \* struct fifo g_fifo_tx
    g_fifo_rx,  \* struct fifo g_fifo_rx
    SREG_I,     \* global interrupt enable bit of SREG
    pc,         \* source line the main context executes next, 0 = outside
    loc,        \* locals of the main context's current call chain
    usart,      \* USART0 transmitter: data register, shift register, TXC flag
    txh,        \* history of the transmit path
    rxh,        \* history of the receive path
    hx,         \* load cell sampler: clock pin, data lines, results, position
    crc_test    \* CRC harness: message folded so far and the running value

pvars == <<parser, g_buffer, fed, results, stages, cur, garbage>>
svars == <<g_fifo_tx, g_fifo_rx, SREG_I, pc, loc, usart, txh, rxh>>
ovars == <<hx, crc_test>>
vars == <<parser, g_buffer, fed, results, stages, cur, garbage,
          g_fifo_tx, g_fifo_rx, SREG_I, pc, loc, usart, txh, rxh,
          hx, crc_test>>

\* ------------------------------------------------------------- bit helpers
RECURSIVE Xor(_, _)
Xor(a, b) ==
    IF a = 0 THEN b
    ELSE IF b = 0 THEN a
    ELSE ((a + b) % 2) + 2 * Xor(a \div 2, b \div 2)

\* ---------------------------------------------------------------- CRC (crc.h)
crc16_shift(c) ==
    IF c >= 32768 THEN Xor((c * 2) % 65536, CRC16_CCITT_FALSE_POLY)
    ELSE (c * 2) % 65536

crc16_ccitt_false_add_byte(crc, byte) ==
    crc16_shift(crc16_shift(crc16_shift(crc16_shift(
    crc16_shift(crc16_shift(crc16_shift(crc16_shift(Xor(crc, byte * 256)))))))))

RECURSIVE crc16_ccitt_false_add(_, _, _)
crc16_ccitt_false_add(crc, size, data) ==
    IF size = 0 THEN crc
    ELSE crc16_ccitt_false_add_byte(
             crc16_ccitt_false_add(crc, size - 1, data), data[size])

\* (PACKET_MAGIC >> (8U * k)) & 0xFF for k in 0..3.
magic_byte(k) ==
    IF k < 2 THEN (PACKET_MAGIC_LO \div (256 ^ k)) % 256
    ELSE (PACKET_MAGIC_HI \div (256 ^ (k - 2))) % 256

\* ------------------------------------------------------------- packet_send
\* The header with the magic most-significant byte first.
packet_header_magic_msb_first(size) ==
    << magic_byte(3), magic_byte(2), magic_byte(1), magic_byte(0),
       size, 0, 0, 0 >>

\* The three writer calls of packet_send, in order: header, payload, CRC.
packet_header(size) ==
    << magic_byte(0), magic_byte(1), magic_byte(2), magic_byte(3),
       size, 0, 0, 0 >>

\* packet_send emitting the CRC least-significant byte first.
packet_send_crc_lsb_first(size, data) ==
    LET crc == crc16_ccitt_false_add(CRC16_CCITT_FALSE_INITIAL_VALUE, size, data)
    IN  << packet_header(size),
           SubSeq(data, 1, size),
           << crc % 256, crc \div 256 >> >>

packet_send(size, data) ==
    LET crc == crc16_ccitt_false_add(CRC16_CCITT_FALSE_INITIAL_VALUE, size, data)
    IN  << packet_header(size),
           SubSeq(data, 1, size),
           << crc \div 256, crc % 256 >> >>

\* cb_write: append every chunk to the buffer, in call order.
cb_write(buffer, chunks) == buffer \o chunks[1] \o chunks[2] \o chunks[3]

\* ------------------------------------------------------------ packet_parse
\* Stages 0..3 with the magic compared most-significant byte first.
parse_magic_msb_first(state, byte) ==
    [ state  |-> [state EXCEPT !.stage =
                    IF byte = magic_byte(3 - state.stage)
                    THEN state.stage + 1 ELSE 0],
      result |-> FALSE ]

\* A mismatching first magic byte taken as the start of a new magic.
parse_magic_restart(state, byte) ==
    [ state  |-> [state EXCEPT !.stage =
                    IF byte = magic_byte(state.stage) THEN state.stage + 1
                    ELSE IF byte = magic_byte(0) THEN 1 ELSE 0],
      result |-> FALSE ]

\* case 0..3: magic synchronisation.
parse_magic(state, byte) ==
    [ state  |-> [state EXCEPT !.stage =
                    IF byte = magic_byte(state.stage)
                    THEN state.stage + 1 ELSE 0],
      result |-> FALSE ]

\* case 4: payload size.
parse_size(state, byte) ==
    [ state  |-> [state EXCEPT !.payload_size   = byte,
                               !.payload_offset = 0,
                               !.crc            = CRC16_CCITT_FALSE_INITIAL_VALUE,
                               !.stage          = IF byte > PAYLOAD_CAPACITY
                                                  THEN 0 ELSE 5],
      result |-> FALSE ]

\* The reserved stage consuming two bytes instead of three.
parse_reserved_two_bytes(state, byte) ==
    [ state  |-> [state EXCEPT !.stage = IF state.stage = 5 THEN 7
                                         ELSE state.stage + 1],
      result |-> FALSE ]

\* case 5..7: reserved bytes.
parse_reserved(state, byte) ==
    [ state  |-> [state EXCEPT !.stage = state.stage + 1],
      result |-> FALSE ]

\* The payload stage storing while payload_offset <= payload_size.
parse_payload_inclusive(state, byte) ==
    IF state.payload_offset <= state.payload_size THEN
        [ state  |-> [state EXCEPT
                        !.payload[state.payload_offset] = byte,
                        !.crc = crc16_ccitt_false_add_byte(state.crc, byte),
                        !.payload_offset = state.payload_offset + 1],
          result |-> FALSE ]
    ELSE
        [ state  |-> [state EXCEPT
                        !.crc = crc16_ccitt_false_add_byte(state.crc, byte),
                        !.stage = 9],
          result |-> FALSE ]

\* case 8: payload bytes, then the first CRC byte.
parse_payload(state, byte) ==
    IF state.payload_offset < state.payload_size THEN
        [ state  |-> [state EXCEPT
                        !.payload[state.payload_offset] = byte,
                        !.crc = crc16_ccitt_false_add_byte(state.crc, byte),
                        !.payload_offset = state.payload_offset + 1],
          result |-> FALSE ]
    ELSE
        [ state  |-> [state EXCEPT
                        !.crc = crc16_ccitt_false_add_byte(state.crc, byte),
                        !.stage = 9],
          result |-> FALSE ]

\* The default case reporting success without comparing the residue.
parse_crc_unchecked(state, byte) ==
    LET c == crc16_ccitt_false_add_byte(state.crc, byte)
    IN  [ state  |-> [state EXCEPT !.crc = c, !.stage = 0],
          result |-> TRUE ]

\* The default case invalidating the stored size when the residue is wrong.
parse_crc_clears_size(state, byte) ==
    LET c == crc16_ccitt_false_add_byte(state.crc, byte)
    IN  [ state  |-> [state EXCEPT
                        !.crc = c, !.stage = 0,
                        !.payload_size = IF CRC16_CCITT_FALSE_RESIDUE = c
                                         THEN state.payload_size ELSE 0],
          result |-> (CRC16_CCITT_FALSE_RESIDUE = c) ]

\* The default case returning to stage 0 only when the residue matched.
parse_crc_stuck(state, byte) ==
    LET c == crc16_ccitt_false_add_byte(state.crc, byte)
    IN  [ state  |-> [state EXCEPT
                        !.crc = c,
                        !.stage = IF CRC16_CCITT_FALSE_RESIDUE = c
                                  THEN 0 ELSE state.stage],
          result |-> (CRC16_CCITT_FALSE_RESIDUE = c) ]

\* default: the last CRC byte.
parse_crc(state, byte) ==
    LET c == crc16_ccitt_false_add_byte(state.crc, byte)
    IN  [ state  |-> [state EXCEPT !.crc = c, !.stage = 0],
          result |-> (CRC16_CCITT_FALSE_RESIDUE = c) ]

packet_parse(state, byte) ==
    IF state.stage \in 0..3 THEN parse_magic(state, byte)
    ELSE IF state.stage = 4 THEN parse_size(state, byte)
    ELSE IF state.stage \in 5..7 THEN parse_reserved(state, byte)
    ELSE IF state.stage = 8 THEN parse_payload(state, byte)
    ELSE parse_crc(state, byte)

\* struct packet_parser parser = {0};
parser_zero ==
    [ stage |-> 0, payload_size |-> 0, payload_offset |-> 0,
      payload |-> [i \in 0..(PAYLOAD_CAPACITY - 1) |-> 0], crc |-> 0 ]

\* ---------------------------------------------------- ring buffer (fifo)
\* struct fifo with an empty buffer of the given size.
fifo_new(bufsize) ==
    [ pbuf |-> [i \in 0..(bufsize - 1) |-> 0], bufsize |-> bufsize,
      in |-> 0, out |-> 0, len |-> 0 ]

\* Index increment with wrap-around: x++; if (x >= bufsize) x = 0;
\* The index advanced without wrapping.
fifo_next_no_wrap(x, bufsize) == x + 1

fifo_next(x, bufsize) == IF x + 1 >= bufsize THEN 0 ELSE x + 1

\* fifo_push that overwrites on a full buffer without advancing the read index.
fifo_push_keeps_out(pfifo, data) ==
    IF pfifo.len >= pfifo.bufsize THEN
        [pfifo EXCEPT !.pbuf[pfifo.in] = data,
                      !.in  = fifo_next(pfifo.in, pfifo.bufsize)]
    ELSE
        [pfifo EXCEPT !.pbuf[pfifo.in] = data,
                      !.in  = fifo_next(pfifo.in, pfifo.bufsize),
                      !.len = pfifo.len + 1]

\* Body of fifo_push between cli and the SREG restore.
fifo_push(pfifo, data) ==
    IF pfifo.len >= pfifo.bufsize THEN
        [pfifo EXCEPT !.pbuf[pfifo.in] = data,
                      !.in  = fifo_next(pfifo.in, pfifo.bufsize),
                      !.out = fifo_next(pfifo.out, pfifo.bufsize)]
    ELSE
        [pfifo EXCEPT !.pbuf[pfifo.in] = data,
                      !.in  = fifo_next(pfifo.in, pfifo.bufsize),
                      !.len = pfifo.len + 1]

\* fifo_pop that reads the slot after advancing the read index.
fifo_pop_preincrement(pfifo) ==
    IF pfifo.len <= 0 THEN
        [ fifo |-> pfifo, retval |-> -1 ]
    ELSE
        [ fifo   |-> [pfifo EXCEPT !.len = pfifo.len - 1,
                                   !.out = fifo_next(pfifo.out, pfifo.bufsize)],
          retval |-> pfifo.pbuf[fifo_next(pfifo.out, pfifo.bufsize)] ]

\* fifo_pop whose emptiness test (len < 0) is never true of an unsigned len.
fifo_pop_unchecked(pfifo) ==
    [ fifo   |-> [pfifo EXCEPT !.len = (pfifo.len - 1) % 65536,
                               !.out = fifo_next(pfifo.out, pfifo.bufsize)],
      retval |-> pfifo.pbuf[pfifo.out] ]

\* Body of fifo_pop between cli and the SREG restore.
fifo_pop(pfifo) ==
    IF pfifo.len <= 0 THEN
        [ fifo |-> pfifo, retval |-> -1 ]
    ELSE
        [ fifo   |-> [pfifo EXCEPT !.len = pfifo.len - 1,
                                   !.out = fifo_next(pfifo.out, pfifo.bufsize)],
          retval |-> pfifo.pbuf[pfifo.out] ]

\* Body of fifo_len.
fifo_len(pfifo) == pfifo.len

\* The unread bytes, oldest first.
Contents(pfifo) ==
    [ i \in 1..pfifo.len |-> pfifo.pbuf[(pfifo.out + i - 1) % pfifo.bufsize] ]

\* ------------------------------------------------------ USART0 transmitter
\* udr / tsr hold a byte or -1 when empty; UDRE0 (UCSR0A bit 5) is udr empty.
usart_idle == [ udr |-> -1, tsr |-> -1, txc |-> FALSE ]

UDRE0(u) == u.udr = -1

\* UDR0 = val: the byte goes to the shift register if that is free, else it
\* waits in the data register; a write with UDRE0 clear is ignored.
udr_write(u, val) ==
    IF u.tsr = -1 /\ u.udr = -1 THEN [u EXCEPT !.tsr = val]
    ELSE IF u.udr = -1 THEN [u EXCEPT !.udr = val]
    ELSE u

\* is_tx_idle that looks at the data register only, not at the ring buffer.
is_tx_idle_ignores_fifo(len, u) == UDRE0(u)

\* (fifo_len(&g_fifo_tx) == 0) && (UCSR0A & (1U << 5U)), given fifo_len's value.
is_tx_idle(len, u) == (len = 0) /\ UDRE0(u)

\* ------------------------------------------------------------ serial state
NoLocals ==
    [ data |-> <<>>, idx |-> 1, remaining |-> 0, sreg_w |-> TRUE,
      sreg_f |-> TRUE, retval |-> 0, ret |-> 0, arg |-> 0 ]

NoTxHistory ==
    [ written |-> <<>>, handed |-> <<>>, udr_log |-> <<>>,
      push_on_full |-> FALSE, calls |-> 0, chunk |-> 0 ]

NoRxHistory ==
    [ pushed |-> <<>>, popped |-> <<>>, overflow |-> FALSE,
      push_after_pop |-> FALSE, received |-> 0, dropped |-> 0,
      last |-> [val |-> -1, fe |-> FALSE, pe |-> FALSE] ]

\* State after platform_init: both buffers empty, interrupts enabled.
SerialInit ==
    /\ g_fifo_tx = fifo_new(TxBufSize)
    /\ g_fifo_rx = fifo_new(RxBufSize)
    /\ SREG_I = TRUE
    /\ pc = 0
    /\ loc = NoLocals
    /\ usart = usart_idle
    /\ txh = NoTxHistory
    /\ rxh = NoRxHistory

\* ------------------------------------------------------- protocol harness
Payloads == UNION { [1..n -> PayloadBytes] : n \in 0..MaxLen }

NoFrame ==
    [ active |-> FALSE, payload |-> <<>>, corrupted |-> FALSE, start |-> 0,
      stage0 |-> 0, count |-> 0, g_len |-> 0, g_stage0 |-> 0, g_clean |-> TRUE,
      after_corrupt |-> FALSE, writes |-> <<>> ]

NoGarbage(stage, total) ==
    [ len |-> 0, stage0 |-> stage, clean |-> TRUE, total |-> total ]

\* One flipped bit of one payload byte.
Flip(byte, bit) == Xor(byte, bit)

PacketInit ==
    /\ parser = parser_zero
    /\ g_buffer = <<>>
    /\ fed = <<>>
    /\ results = <<>>
    /\ stages = <<>>
    /\ cur = NoFrame
    /\ garbage = NoGarbage(0, 0)

\* The step every receive path shares: one byte through packet_parse.
Feed(byte) ==
    LET r == packet_parse(parser, byte)
    IN  /\ parser' = r.state
        /\ fed' = Append(fed, byte)
        /\ results' = Append(results, r.result)
        /\ stages' = Append(stages, parser.stage)

NewFrame(p, corrupted) ==
    [ active |-> TRUE, payload |-> p, corrupted |-> corrupted,
      start |-> Len(fed), stage0 |-> parser.stage, count |-> cur.count + 1,
      g_len |-> garbage.len, g_stage0 |-> garbage.stage0,
      g_clean |-> garbage.clean,
      after_corrupt |-> /\ cur.active /\ cur.corrupted /\ cur.stage0 = 0
                        /\ garbage.len = 0,
      writes |-> packet_send(Len(p), p) ]

\* packet_send(n, payload, cb_write) with the buffer drained; the harness
\* sends two packets to the same parser, as test_packet does.
PacketSend(p) ==
    /\ g_buffer = <<>>
    /\ cur.count < 2
    /\ g_buffer' = cb_write(g_buffer, packet_send(Len(p), p))
    /\ cur' = NewFrame(p, FALSE)
    /\ garbage' = NoGarbage(parser.stage, garbage.total)
    /\ UNCHANGED <<parser, fed, results, stages>>
    /\ UNCHANGED <<svars, ovars>>

\* packet_send followed by a channel that replaces one payload byte.
PacketSendCorrupted(p, i, bit) ==
    /\ g_buffer = <<>>
    /\ cur.count < 2
    /\ i \in 1..Len(p)
    /\ g_buffer' = [cb_write(g_buffer, packet_send(Len(p), p))
                        EXCEPT ![8 + i] = Flip(p[i], bit)]
    /\ cur' = NewFrame(p, TRUE)
    /\ garbage' = NoGarbage(parser.stage, garbage.total)
    /\ UNCHANGED <<parser, fed, results, stages>>
    /\ UNCHANGED <<svars, ovars>>

\* The parse loop of the harness: the next emitted byte goes to packet_parse.
ParseNext ==
    /\ g_buffer # <<>>
    /\ Feed(Head(g_buffer))
    /\ g_buffer' = Tail(g_buffer)
    /\ UNCHANGED <<cur, garbage>>
    /\ UNCHANGED <<svars, ovars>>

\* A noise byte reaches the parser between frames.
ParseGarbage(b) ==
    /\ g_buffer = <<>>
    /\ garbage.total < MaxGarbage
    /\ cur.count < 2
    /\ Feed(b)
    /\ garbage' = [ len |-> garbage.len + 1, stage0 |-> garbage.stage0,
                    clean |-> garbage.clean /\ b # magic_byte(0),
                    total |-> garbage.total + 1 ]
    /\ UNCHANGED <<g_buffer, cur>>
    /\ UNCHANGED <<svars, ovars>>

NextPacket ==
    \/ \E p \in Payloads : PacketSend(p)
    \/ \E p \in Payloads : \E i \in 1..MaxLen : \E bit \in CorruptBits :
           PacketSendCorrupted(p, i, bit)
    \/ ParseNext
    \/ \E b \in GarbageBytes : ParseGarbage(b)

\* ------------------------------------------------ load cell sampler state
PLATFORM_LOAD_CELL_COUNT == 2
Lines == 0..(PLATFORM_LOAD_CELL_COUNT - 1)
\* static const uint8_t num_bits = 24
num_bits == 24

NoSamplerHistory ==
    [ edges |-> 0, reads |-> [l \in Lines |-> 0], low_reads |-> 0,
      pass_low |-> {}, bits |-> [l \in Lines |-> <<>>],
      value |-> [l \in Lines |-> 0], done |-> FALSE, waited |-> FALSE,
      level25 |-> [l \in Lines |-> TRUE] ]

\* State after platform_init and main's "reading = {0}": the clock pin idles
\* high, no sensor has a conversion ready (data lines high), results zero.
SamplerInit ==
    hx = [ pc |-> 0, sck |-> TRUE,
           dout |-> [l \in Lines |-> TRUE],
           ready |-> [l \in Lines |-> FALSE],
           sample |-> [l \in Lines |-> 0],
           results |-> [l \in Lines |-> 0],
           busy |-> FALSE, i |-> 0, j |-> 0,
           h |-> NoSamplerHistory ]

\* The CRC harness holds nothing until test_crc starts.
NoCrcTest == [ msg |-> <<>>, crc |-> CRC16_CCITT_FALSE_INITIAL_VALUE,
               pos |-> 0, appended |-> FALSE ]

InitPacket == PacketInit /\ SerialInit /\ SamplerInit /\ crc_test = NoCrcTest

Spec == InitPacket /\ [][NextPacket]_vars

\* ------------------------------------------------- packet protocol claims
Min(a, b) == IF a < b THEN a ELSE b

\* Length of the frame being fed and how many of its bytes were parsed.
FrameLen == 10 + Len(cur.payload)
FramePos == Len(fed) - cur.start
FrameJustFed == cur.active /\ FramePos = FrameLen

\* packet_parse returned false on every byte of the frame but its last.
TrueOnlyOnLast ==
    \A i \in 1..Min(FramePos, FrameLen) :
        results[cur.start + i] = (i = FrameLen)

\* Right after the last byte: the parser holds the sender's payload.
PayloadDelivered ==
    FramePos = FrameLen =>
        /\ results[Len(results)] = TRUE
        /\ parser.payload_size = Len(cur.payload)
        /\ \A j \in 1..Len(cur.payload) : parser.payload[j - 1] = cur.payload[j]

\* C1: a frame emitted by packet_send and fed byte by byte to a parser whose
\* stage is 0 makes packet_parse return false on every byte but the last and
\* true on the last, and leaves payload_size and payload equal to what was sent.
C1_RoundTrip ==
    (cur.active /\ ~cur.corrupted /\ cur.stage0 = 0) =>
        (TrueOnlyOnLast /\ PayloadDelivered)

C1_Witness ==
    /\ FrameJustFed /\ ~cur.corrupted /\ cur.stage0 = 0
    /\ Len(cur.payload) >= 1
    /\ results[Len(results)] = TRUE

FrameAt(s, n) ==
    /\ Len(s) >= 10 + n
    /\ LET base == Len(s) - (10 + n)
       IN  /\ \A k \in 0..3 : s[base + 1 + k] = magic_byte(k)
           /\ s[base + 5] = n
           /\ crc16_ccitt_false_add(CRC16_CCITT_FALSE_INITIAL_VALUE, n + 2,
                                    SubSeq(s, base + 9, Len(s)))
                  = CRC16_CCITT_FALSE_RESIDUE

FrameSizes(s) == 0..Min(PAYLOAD_CAPACITY, Len(s) - 10)

\* C3 (as stated): on a zero-initialised parser a call returns true exactly
\* when the bytes consumed by it and the calls right before it are a complete
\* frame with a valid CRC.
C3_TrueExactlyOnFrameEnd ==
    Len(results) >= 1 =>
        (results[Len(results)] <=> \E n \in FrameSizes(fed) : FrameAt(fed, n))

\* C3 (amended): a call returns true exactly when it consumes the second CRC
\* byte of a complete, CRC-valid frame whose first magic byte was consumed
\* with the parser at stage 0; on every other call it returns false.
C3_TrueExactlyOnSyncedFrameEnd ==
    Len(results) >= 1 =>
        (results[Len(results)] <=>
            \E n \in FrameSizes(fed) :
                /\ FrameAt(fed, n)
                /\ stages[Len(fed) - (10 + n) + 1] = 0)

C3_Witness ==
    /\ Len(results) >= 1
    /\ results[Len(results)] = TRUE
    /\ garbage.total >= 1
    /\ cur.count = 2

EverTrue == \E i \in 1..Len(results) : results[i]
Called == Len(results') = Len(results) + 1

\* C4 (as stated): once a call has returned true, every later call that
\* returns false leaves payload_size and payload[0..payload_size-1] unchanged.
C4_RetainedUntilNextTrue ==
    [][ (EverTrue /\ Called /\ ~results'[Len(results')]) =>
            /\ parser'.payload_size = parser.payload_size
            /\ \A j \in 0..(parser.payload_size - 1) :
                   parser'.payload[j] = parser.payload[j] ]_vars

\* C4 (amended): payload_size changes only on the call that consumes a size
\* byte (entered at stage 4) and payload[k] only on the call that stores a
\* payload byte at k (entered at stage 8 with payload_offset = k <
\* payload_size); every other call, true or false, leaves both unchanged.
C4_RetainedUntilNextHeader ==
    [][ Called =>
            /\ (parser.stage # 4 => parser'.payload_size = parser.payload_size)
            /\ \/ parser'.payload = parser.payload
               \/ /\ parser.stage = 8
                  /\ parser.payload_offset < parser.payload_size
                  /\ parser'.payload =
                         [parser.payload EXCEPT ![parser.payload_offset] =
                              parser'.payload[parser.payload_offset]] ]_vars

C4_Witness ==
    /\ EverTrue
    /\ Len(results) >= 1 /\ ~results[Len(results)]
    /\ stages[Len(stages)] = 8
    /\ parser.payload_offset = 1
    /\ parser.payload[0] # cur.payload[1]

\* C10: a frame with one payload byte replaced, fed at stage 0, gets false on
\* every one of its bytes, and the well-formed frame fed right after it is
\* parsed: true on its last byte only, with its own payload and length.
C10_CorruptedRejectedThenRecovers ==
    /\ (cur.active /\ cur.corrupted /\ cur.stage0 = 0) =>
           \A i \in 1..Min(FramePos, FrameLen) : results[cur.start + i] = FALSE
    /\ (cur.active /\ ~cur.corrupted /\ cur.after_corrupt) =>
           (TrueOnlyOnLast /\ PayloadDelivered)

C10_Witness ==
    /\ FrameJustFed /\ ~cur.corrupted /\ cur.after_corrupt
    /\ Len(cur.payload) >= 1
    /\ results[Len(results)] = TRUE

\* C11: packet_send calls the writer exactly three times, with the header,
\* the payload and the CRC in that order, so a packet of n payload bytes is
\* the 10+n bytes B4 4C EC F2, n, three zeros, the payload and the CRC of the
\* payload most-significant byte first; an empty packet ends in FF FF.
C11_FrameLayout ==
    (cur.active /\ ~cur.corrupted /\ Len(fed) = cur.start) =>
        LET n == Len(cur.payload)
            crc == crc16_ccitt_false_add(65535, n, cur.payload)
        IN  /\ Len(cur.writes) = 3
            /\ cur.writes[1] = <<180, 76, 236, 242, n, 0, 0, 0>>
            /\ cur.writes[2] = cur.payload
            /\ cur.writes[3] = << crc \div 256, crc % 256 >>
            /\ g_buffer = cur.writes[1] \o cur.writes[2] \o cur.writes[3]
            /\ Len(g_buffer) = 10 + n
            /\ (n = 0 =>
                   g_buffer = <<180, 76, 236, 242, 0, 0, 0, 0, 255, 255>>)
            /\ (cur.payload = <<49>> =>
                   g_buffer = <<180, 76, 236, 242, 1, 0, 0, 0, 49, 199, 130>>)

C11_Witness ==
    /\ cur.active /\ ~cur.corrupted /\ Len(fed) = cur.start
    /\ Len(cur.payload) = MaxLen /\ Len(g_buffer) = 10 + MaxLen
    /\ cur.count = 2

\* Positions 1..FrameLen of the current frame whose call was entered at stage s.
FrameCallsAtStage(s) ==
    { i \in 1..Min(FramePos, FrameLen) : stages[cur.start + i] = s }

\* C17 (as stated): while a frame of n payload bytes is parsed from stage 0,
\* stage 8 is the stage on entry for exactly the n payload bytes and stage 9
\* is the stage on entry for both CRC bytes; after the second CRC byte the
\* stage is 0 whether or not the residue matched.
C17_StageNineForBothCrcBytes ==
    (FrameJustFed /\ cur.stage0 = 0) =>
        LET n == Len(cur.payload)
        IN  /\ FrameCallsAtStage(8) = 9..(8 + n)
            /\ FrameCallsAtStage(9) = {9 + n, 10 + n}
            /\ parser.stage = 0

\* C17 (amended): stage 8 is the stage on entry for the n payload bytes and
\* for the first (high) CRC byte, n + 1 calls of which n store a byte; stage
\* 9 is the stage on entry for the second (low) CRC byte only; after that
\* byte the stage is 0 whether or not the residue matched.
C17_StageEightTakesFirstCrcByte ==
    (FrameJustFed /\ cur.stage0 = 0) =>
        LET n == Len(cur.payload)
        IN  /\ FrameCallsAtStage(8) = 9..(9 + n)
            /\ FrameCallsAtStage(9) = {10 + n}
            /\ parser.payload_offset = n
            /\ parser.stage = 0
            /\ results[Len(results)] = ~cur.corrupted

C17_Witness ==
    /\ FrameJustFed /\ cur.stage0 = 0
    /\ cur.corrupted
    /\ Len(cur.payload) = MaxLen
    /\ stages[Len(stages)] = 9 /\ stages[Len(stages) - 1] = 8
    /\ parser.stage = 0 /\ parser.crc # 0

\* ---------------------------------------------------------- byte streams
\* packet_parse on one byte of an arbitrary stream; fed, results and stages
\* hold the last call only.
StreamFeed(byte) ==
    LET r == packet_parse(parser, byte)
    IN  /\ parser' = r.state
        /\ fed' = <<byte>>
        /\ results' = <<r.result>>
        /\ stages' = <<parser.stage>>

\* Any byte, while the stream is short.
StreamByte(b) ==
    /\ garbage.total < MaxStream
    /\ StreamFeed(b)
    /\ garbage' = [garbage EXCEPT !.total = @ + 1, !.len = @ + 1]
    /\ UNCHANGED <<g_buffer, cur>>
    /\ UNCHANGED <<svars, ovars>>

\* After that the stream goes on with FF bytes until a frame that declared
\* the largest size is over.
StreamFill ==
    /\ garbage.total = MaxStream
    /\ parser.stage >= 8
    /\ parser.payload_size = PAYLOAD_CAPACITY
    /\ StreamFeed(255)
    /\ UNCHANGED <<g_buffer, cur, garbage>>
    /\ UNCHANGED <<svars, ovars>>

NextStream ==
    \/ \E b \in StreamBytes : StreamByte(b)
    \/ StreamFill

SpecStream == InitPacket /\ [][NextStream]_vars

\* A packet_parse call happens in this step.
StreamCall == fed' # <<>> /\ <<parser, fed, results, stages, garbage>>' #
                             <<parser, fed, results, stages, garbage>>

\* C18: after any byte sequence fed to a zero-initialised parser,
\* payload_offset <= payload_size <= 255 and the stage is in 0..9; every
\* store into the payload buffer uses an index below 255; a size byte above
\* the capacity sends the parser to stage 0 without storing, and every
\* other size byte is taken as the size.
C18_PayloadBufferBounds ==
    /\ [](/\ 0 <= parser.payload_offset
          /\ parser.payload_offset <= parser.payload_size
          /\ parser.payload_size <= 255
          /\ parser.stage \in 0..9
          /\ DOMAIN parser.payload = 0..254)
    /\ [][(parser'.payload # parser.payload
            \/ parser'.payload_offset = parser.payload_offset + 1) =>
              /\ parser.stage = 8
              /\ parser.payload_offset < 255
              /\ parser'.payload =
                     [parser.payload EXCEPT ![parser.payload_offset] = fed'[1]]
              /\ parser'.payload_offset = parser.payload_offset + 1]_vars
    /\ [][(StreamCall /\ parser.stage = 4) =>
              /\ parser'.payload = parser.payload
              /\ IF fed'[1] > 255 THEN parser'.stage = 0
                 ELSE parser'.stage = 5 /\ parser'.payload_size = fed'[1]]_vars

C18_Witness ==
    /\ parser.payload_size = 255
    /\ parser.payload_offset = 255
    /\ parser.payload[254] = 255
    /\ parser.stage = 8

\* C19: at each of stages 0..3 packet_parse advances the stage by one if the
\* byte is byte number stage of B4 4C EC F2 and otherwise sets the stage to
\* 0, also when the failing byte is B4; it returns false and changes no other
\* parser field.
C19_MagicSynchronisation ==
    [][(StreamCall /\ parser.stage \in 0..3) =>
          LET b == fed'[1]
              match == b = <<180, 76, 236, 242>>[parser.stage + 1]
          IN  /\ parser' = [parser EXCEPT !.stage =
                                IF match THEN parser.stage + 1 ELSE 0]
              /\ match => parser'.stage = parser.stage + 1
              /\ ~match => parser'.stage = 0
              /\ results' = <<FALSE>>]_vars

C19_Witness ==
    /\ stages = <<2>>
    /\ fed = <<180>>
    /\ results = <<FALSE>>
    /\ parser.stage = 0

\* ------------------------------------------------------------ receive path
\* Byte values the USART receives.
RxBytes == {17, 34}

\* The handler's test with only the framing-error bit examined.
rx_status_ok_frame_only(fe, pe) == ~fe

\* (UCSR0A & ((1U << 4U) | (1U << 2U))) == 0: neither FE0 nor UPE0 is set.
rx_status_ok(fe, pe) == ~fe /\ ~pe

\* ISR(USART_RX_vect): runs with interrupts enabled, atomically (the hardware
\* clears the I bit for the duration of a handler); fe / pe are UCSR0A bits
\* 4 and 2 for the received byte.
RxIsr(val, fe, pe) ==
    /\ SREG_I
    /\ rxh.received < MaxRx
    /\ IF rx_status_ok(fe, pe) THEN
           /\ g_fifo_rx' = fifo_push(g_fifo_rx, val)
           /\ rxh' = [rxh EXCEPT
                        !.pushed = Append(@, val),
                        !.overflow = @ \/ g_fifo_rx.len >= g_fifo_rx.bufsize,
                        !.push_after_pop = @ \/ Len(rxh.popped) > 0,
                        !.received = @ + 1,
                        !.last = [val |-> val, fe |-> fe, pe |-> pe]]
       ELSE
           /\ g_fifo_rx' = g_fifo_rx
           /\ rxh' = [rxh EXCEPT !.received = @ + 1, !.dropped = @ + 1,
                        !.last = [val |-> val, fe |-> fe, pe |-> pe]]
    /\ UNCHANGED <<g_fifo_tx, SREG_I, pc, loc, usart, txh>>
    /\ UNCHANGED <<pvars, ovars>>

\* platform_serial_read -> fifo_pop(&g_fifo_rx), lines 57-58: retval, sreg.
ReadCall ==
    /\ pc = 0
    /\ Len(rxh.popped) < MaxReads
    /\ loc' = [NoLocals EXCEPT !.retval = -1, !.sreg_f = SREG_I]
    /\ pc' = 59
    /\ UNCHANGED <<g_fifo_tx, g_fifo_rx, SREG_I, usart, txh, rxh>>
    /\ UNCHANGED <<pvars, ovars>>

\* fifo_pop line 59: cli.
PopCli ==
    /\ pc = 59
    /\ SREG_I' = FALSE
    /\ pc' = 60
    /\ UNCHANGED <<g_fifo_tx, g_fifo_rx, loc, usart, txh, rxh>>
    /\ UNCHANGED <<pvars, ovars>>

\* fifo_pop lines 60-69.
PopBody ==
    /\ pc = 60
    /\ LET r == fifo_pop(g_fifo_rx)
       IN  /\ g_fifo_rx' = r.fifo
           /\ loc' = [loc EXCEPT !.retval = r.retval]
           /\ rxh' = [rxh EXCEPT !.popped = Append(@, r.retval)]
    /\ pc' = 71
    /\ UNCHANGED <<g_fifo_tx, SREG_I, usart, txh>>
    /\ UNCHANGED <<pvars, ovars>>

\* fifo_pop lines 71-72: SREG = sreg; return.
PopRestore ==
    /\ pc = 71
    /\ SREG_I' = loc.sreg_f
    /\ pc' = 0
    /\ loc' = NoLocals
    /\ UNCHANGED <<g_fifo_tx, g_fifo_rx, usart, txh, rxh>>
    /\ UNCHANGED <<pvars, ovars>>

NextRx ==
    \/ \E val \in RxBytes : \E fe \in BOOLEAN : \E pe \in BOOLEAN :
           RxIsr(val, fe, pe)
    \/ ReadCall
    \/ PopCli
    \/ PopBody
    \/ PopRestore

SpecRx == InitPacket /\ [][NextRx]_vars

\* ----------------------------------------------------- ring buffer claims
PoppedBytes == SelectSeq(rxh.popped, LAMBDA v : v >= 0)
LastN(s, n) == SubSeq(s, Len(s) - n + 1, Len(s))

\* C7: as long as no push hit a full buffer, the bytes popped so far are the
\* first bytes pushed, in push order, none skipped; and pops that come after
\* all N <= capacity pushes return exactly the pushed bytes.
C7_FifoOrder ==
    ~rxh.overflow =>
        /\ PoppedBytes = SubSeq(rxh.pushed, 1, Len(PoppedBytes))
        /\ Len(PoppedBytes) + g_fifo_rx.len = Len(rxh.pushed)
        /\ ~rxh.push_after_pop =>
               \A i \in 1..Min(Len(rxh.popped), Len(rxh.pushed)) :
                   rxh.popped[i] = rxh.pushed[i]

C7_Witness ==
    /\ ~rxh.overflow
    /\ Len(rxh.pushed) > g_fifo_rx.bufsize
    /\ Len(PoppedBytes) = Len(rxh.pushed)

\* After more pushes than the capacity and no pop, the pops return the most
\* recent `capacity` bytes in push order and then -1.
PopsAfterOverflow ==
    (~rxh.push_after_pop /\ Len(rxh.pushed) > g_fifo_rx.bufsize) =>
        \A i \in 1..Len(rxh.popped) :
            rxh.popped[i] =
                IF i <= g_fifo_rx.bufsize
                THEN LastN(rxh.pushed, g_fifo_rx.bufsize)[i]
                ELSE -1

\* A push on a full buffer stores the byte, drops exactly the oldest unread
\* byte by advancing the read index, and leaves len at the capacity.
PushOnFull ==
    (Len(rxh.pushed') = Len(rxh.pushed) + 1
        /\ g_fifo_rx.len = g_fifo_rx.bufsize) =>
        /\ g_fifo_rx'.pbuf[g_fifo_rx.in] = rxh.pushed'[Len(rxh.pushed')]
        /\ g_fifo_rx'.out = (g_fifo_rx.out + 1) % g_fifo_rx.bufsize
        /\ g_fifo_rx'.len = g_fifo_rx.bufsize
        /\ Contents(g_fifo_rx') =
               Tail(Contents(g_fifo_rx)) \o <<rxh.pushed'[Len(rxh.pushed')]>>

\* C8: fifo_push on a full buffer overwrites the oldest unread byte, and after
\* M > capacity pushes with no pops the pops return the most recent `capacity`
\* bytes in push order, then report empty.
C8_OverwriteOldest == []PopsAfterOverflow /\ [][PushOnFull]_vars

C8_Witness ==
    /\ rxh.overflow /\ ~rxh.push_after_pop
    /\ Len(rxh.pushed) > g_fifo_rx.bufsize + 1
    /\ Len(rxh.popped) = g_fifo_rx.bufsize + 1
    /\ rxh.popped[Len(rxh.popped)] = -1

\* C9: a pop of the empty RX buffer returns -1 and leaves in, out and len
\* alone; a pop of a non-empty buffer returns the oldest unread byte, a value
\* in 0..255, takes one off len and advances out by one with wrap-around.
C9_EmptyPop ==
    [][ Len(rxh.popped') = Len(rxh.popped) + 1 =>
            LET r == rxh.popped'[Len(rxh.popped')]
                f == g_fifo_rx
            IN  IF f.len = 0 THEN
                    /\ r = -1
                    /\ g_fifo_rx' = f
                ELSE
                    /\ r \in 0..255
                    /\ r = rxh.pushed[Len(rxh.pushed) - f.len + 1]
                    /\ g_fifo_rx'.len = f.len - 1
                    /\ g_fifo_rx'.out = (f.out + 1) % f.bufsize
                    /\ g_fifo_rx'.in = f.in
                    /\ g_fifo_rx'.pbuf = f.pbuf ]_vars

C9_Witness ==
    /\ \E i \in 1..Len(rxh.popped) : rxh.popped[i] = -1
    /\ \E i \in 1..Len(rxh.popped) :
           /\ rxh.popped[i] >= 0
           /\ i > 1 /\ rxh.popped[i - 1] = -1
    /\ Len(rxh.pushed) > g_fifo_rx.bufsize
    /\ pc = 0

\* C12: the receive handler pushes the received byte into the RX ring buffer
\* if and only if neither the framing-error nor the parity-error flag is set
\* for it; otherwise the byte is discarded and the handler changes nothing.
C12_ReceiveErrorFiltering ==
    [][rxh'.received = rxh.received + 1 =>
          LET l == rxh'.last
              cap == g_fifo_rx.bufsize
              all == Append(Contents(g_fifo_rx), l.val)
          IN  IF ~l.fe /\ ~l.pe
              THEN /\ rxh'.pushed = Append(rxh.pushed, l.val)
                   /\ Contents(g_fifo_rx') = LastN(all, Min(Len(all), cap))
              ELSE /\ rxh'.pushed = rxh.pushed
                   /\ rxh'.dropped = rxh.dropped + 1
                   /\ UNCHANGED <<g_fifo_rx, g_fifo_tx, SREG_I, pc, loc,
                                  usart, txh>>]_vars

C12_Witness ==
    /\ rxh.last.pe /\ ~rxh.last.fe
    /\ rxh.dropped = 1
    /\ rxh.pushed = <<17>>
    /\ Contents(g_fifo_rx) = <<17>>

\* ----------------------------------------------------------- transmit path
\* UDR0 = val, recorded in the history of data register writes.
WriteUDR0(val) ==
    usart' = udr_write(usart, val)

\* *bytes++ at lines 229 and 239: the idx-th byte of the data, or, beyond the
\* end of the data, whatever the memory after it holds.
deref(data, idx) ==
    IF idx <= Len(data) THEN {data[idx]}
    ELSE IF idx <= Len(data) + MaxOverrun THEN OutOfBounds
    ELSE {}

\* platform_serial_write(size, data), lines 223-225: bytes, remaining, sreg.
\* The k-th byte handed over in a behaviour has the value k, so that any
\* loss, duplication or reordering shows in the values.
WriteCall(size) ==
    /\ pc = 0
    /\ txh.calls < MaxWrites
    /\ LET first == Len(txh.written) + 1
           data  == [i \in 1..size |-> first + i - 1]
       IN  /\ loc' = [NoLocals EXCEPT !.data = data, !.idx = 1,
                                      !.remaining = size, !.sreg_w = SREG_I]
           /\ txh' = [txh EXCEPT !.written = @ \o data, !.calls = @ + 1]
    /\ pc' = 226
    /\ UNCHANGED <<g_fifo_tx, g_fifo_rx, SREG_I, usart, rxh>>
    /\ UNCHANGED <<pvars, ovars>>

\* Line 226: cli, then line 227 calls is_tx_idle, which calls fifo_len.
WriteCli ==
    /\ pc = 226
    /\ SREG_I' = FALSE
    /\ loc' = [loc EXCEPT !.ret = 86]
    /\ pc' = 77
    /\ UNCHANGED <<g_fifo_tx, g_fifo_rx, usart, txh, rxh>>
    /\ UNCHANGED <<pvars, ovars>>

\* fifo_len line 77: sreg = SREG.
LenSave ==
    /\ pc = 77
    /\ loc' = [loc EXCEPT !.sreg_f = SREG_I]
    /\ pc' = 78
    /\ UNCHANGED <<g_fifo_tx, g_fifo_rx, SREG_I, usart, txh, rxh>>
    /\ UNCHANGED <<pvars, ovars>>

\* fifo_len line 78: cli.
LenCli ==
    /\ pc = 78
    /\ SREG_I' = FALSE
    /\ pc' = 79
    /\ UNCHANGED <<g_fifo_tx, g_fifo_rx, loc, usart, txh, rxh>>
    /\ UNCHANGED <<pvars, ovars>>

\* fifo_len line 79: retval = pfifo->len.
LenRead ==
    /\ pc = 79
    /\ loc' = [loc EXCEPT !.retval = fifo_len(g_fifo_tx)]
    /\ pc' = 80
    /\ UNCHANGED <<g_fifo_tx, g_fifo_rx, SREG_I, usart, txh, rxh>>
    /\ UNCHANGED <<pvars, ovars>>

\* fifo_len ending with sei instead of restoring the saved SREG.
LenRestore_sei ==
    /\ pc = 80
    /\ SREG_I' = TRUE
    /\ pc' = loc.ret
    /\ UNCHANGED <<g_fifo_tx, g_fifo_rx, loc, usart, txh, rxh>>
    /\ UNCHANGED <<pvars, ovars>>

\* fifo_len lines 80-81: SREG = sreg; return to the caller.
LenRestore ==
    /\ pc = 80
    /\ SREG_I' = loc.sreg_f
    /\ pc' = loc.ret
    /\ UNCHANGED <<g_fifo_tx, g_fifo_rx, loc, usart, txh, rxh>>
    /\ UNCHANGED <<pvars, ovars>>

\* Lines 86 and 227-231: the idle test and the direct write of the first byte.
WriteFirst ==
    /\ pc = 86
    /\ IF is_tx_idle(loc.retval, usart) THEN
           \E byte \in deref(loc.data, loc.idx) :
               /\ WriteUDR0(byte)
               /\ txh' = [txh EXCEPT !.udr_log = Append(@, byte),
                                     !.handed  = Append(@, byte)]
               /\ loc' = [loc EXCEPT !.idx = @ + 1,
                                     !.remaining = (@ - 1) % 65536]
       ELSE
           UNCHANGED <<usart, txh, loc>>
    /\ pc' = 232
    /\ UNCHANGED <<g_fifo_tx, g_fifo_rx, SREG_I, rxh>>
    /\ UNCHANGED <<pvars, ovars>>

\* Line 232: SREG = sreg, the end of the critical section.
WriteRestore ==
    /\ pc = 232
    /\ SREG_I' = loc.sreg_w
    /\ pc' = 233
    /\ UNCHANGED <<g_fifo_tx, g_fifo_rx, loc, usart, txh, rxh>>
    /\ UNCHANGED <<pvars, ovars>>

\* Line 233: while (remaining-- > 0); line 235 then calls fifo_len, and the
\* function returns when the loop ends.
WriteLoop ==
    /\ pc = 233
    /\ IF loc.remaining > 0 THEN
           /\ loc' = [loc EXCEPT !.remaining = @ - 1, !.ret = 236]
           /\ pc' = 77
       ELSE
           /\ loc' = NoLocals
           /\ pc' = 0
    /\ UNCHANGED <<g_fifo_tx, g_fifo_rx, SREG_I, usart, txh, rxh>>
    /\ UNCHANGED <<pvars, ovars>>

\* Lines 235-239: spin while the buffer is full, else call fifo_push with
\* *bytes++ (fifo_push line 33: sreg = SREG).
WriteWait ==
    /\ pc = 236
    /\ IF loc.retval >= g_fifo_tx.bufsize THEN
           /\ loc' = [loc EXCEPT !.ret = 236]
           /\ pc' = 77
       ELSE
           \E byte \in deref(loc.data, loc.idx) :
               /\ loc' = [loc EXCEPT !.arg = byte, !.idx = @ + 1,
                                     !.sreg_f = SREG_I]
               /\ pc' = 34
    /\ UNCHANGED <<g_fifo_tx, g_fifo_rx, SREG_I, usart, txh, rxh>>
    /\ UNCHANGED <<pvars, ovars>>

\* fifo_push line 34: cli.
PushCli ==
    /\ pc = 34
    /\ SREG_I' = FALSE
    /\ pc' = 35
    /\ UNCHANGED <<g_fifo_tx, g_fifo_rx, loc, usart, txh, rxh>>
    /\ UNCHANGED <<pvars, ovars>>

\* fifo_push lines 35-51.
PushBody ==
    /\ pc = 35
    /\ g_fifo_tx' = fifo_push(g_fifo_tx, loc.arg)
    /\ txh' = [txh EXCEPT
                 !.handed = Append(@, loc.arg),
                 !.push_on_full = @ \/ g_fifo_tx.len >= g_fifo_tx.bufsize]
    /\ pc' = 52
    /\ UNCHANGED <<g_fifo_rx, SREG_I, loc, usart, rxh>>
    /\ UNCHANGED <<pvars, ovars>>

\* fifo_push line 52: SREG = sreg; back to the loop of platform_serial_write.
PushRestore ==
    /\ pc = 52
    /\ SREG_I' = loc.sreg_f
    /\ pc' = 233
    /\ UNCHANGED <<g_fifo_tx, g_fifo_rx, loc, usart, txh, rxh>>
    /\ UNCHANGED <<pvars, ovars>>

\* ISR(USART_TX_vect): taken when TXC0 is set and interrupts are enabled; the
\* hardware clears TXC0 on entry and runs the handler with the I bit clear.
TxIsr ==
    /\ SREG_I
    /\ usart.txc
    /\ LET r == fifo_pop(g_fifo_tx)
           u == [usart EXCEPT !.txc = FALSE]
       IN  /\ g_fifo_tx' = r.fifo
           /\ IF r.retval >= 0 THEN
                  /\ usart' = udr_write(u, r.retval)
                  /\ txh' = [txh EXCEPT !.udr_log = Append(@, r.retval)]
              ELSE
                  /\ usart' = u
                  /\ txh' = txh
    /\ UNCHANGED <<g_fifo_rx, SREG_I, pc, loc, rxh>>
    /\ UNCHANGED <<pvars, ovars>>

\* The transmitter finishes shifting a byte out: the next byte is taken from
\* the data register, or, if that is empty, TXC0 is raised.
HwShiftDone ==
    /\ usart.tsr # -1
    /\ usart' = IF usart.udr # -1
                THEN [usart EXCEPT !.tsr = usart.udr, !.udr = -1]
                ELSE [usart EXCEPT !.tsr = -1, !.txc = TRUE]
    /\ UNCHANGED <<g_fifo_tx, g_fifo_rx, SREG_I, pc, loc, txh, rxh>>
    /\ UNCHANGED <<pvars, ovars>>

\* A step of the main context inside platform_serial_write.
MainTx ==
    \/ WriteCli \/ LenSave \/ LenCli \/ LenRead \/ LenRestore
    \/ WriteFirst \/ WriteRestore \/ WriteLoop \/ WriteWait
    \/ PushCli \/ PushBody \/ PushRestore

NextTx ==
    \/ \E size \in 1..MaxWriteSize : WriteCall(size)
    \/ WriteCli
    \/ LenSave
    \/ LenCli
    \/ LenRead
    \/ LenRestore
    \/ WriteFirst
    \/ WriteRestore
    \/ WriteLoop
    \/ WriteWait
    \/ PushCli
    \/ PushBody
    \/ PushRestore
    \/ TxIsr
    \/ HwShiftDone

SpecTx == InitPacket /\ [][NextTx]_vars

\* The main context always executes its next instruction, a pending enabled
\* interrupt is always taken, and the transmitter always finishes a byte.
SpecTxFair ==
    /\ InitPacket
    /\ [][NextTx]_vars
    /\ WF_vars(MainTx)
    /\ WF_vars(TxIsr)
    /\ WF_vars(HwShiftDone)

\* ------------------------------------------------------- transmit claims
IsPrefix(s, t) == Len(s) <= Len(t) /\ s = SubSeq(t, 1, Len(s))

\* C5: the bytes written to UDR0 so far are a prefix of the bytes passed to
\* platform_serial_write so far, the bytes handed over are exactly the bytes
\* written to UDR0 followed by the bytes waiting in the TX ring buffer, and
\* fifo_push never runs on a full TX ring buffer.
C5_TransmitOrder ==
    /\ IsPrefix(txh.udr_log, txh.written)
    /\ IsPrefix(txh.handed, txh.written)
    /\ txh.handed = txh.udr_log \o Contents(g_fifo_tx)
    /\ ~txh.push_on_full

C5_Witness ==
    /\ Len(txh.udr_log) >= TxBufSize + 2
    /\ txh.udr_log = txh.written
    /\ txh.calls = 2
    /\ pc = 0

\* C6: every byte handed to the transport is eventually written to UDR0 and
\* every platform_serial_write call returns.
C6_TransmitProgress ==
    /\ \A k \in 1..(MaxWrites * MaxWriteSize) :
           (Len(txh.handed) >= k) ~> (Len(txh.udr_log) >= k)
    /\ (pc # 0) ~> (pc = 0)


\* ------------------------------------------------------ load cell sampler
\* 24-bit conversions the sensors shift out: 0x000001, 0x7FFFFF, 0x800000,
\* 0xFFFFFF and 0xABCDEF.
Samples == {1, 8388607, 8388608, 16777215, 11259375}

RECURSIVE Pow2(_)
Pow2(n) == IF n = 0 THEN 1 ELSE 2 * Pow2(n - 1)

\* Level of a sensor's data line while it presents bit k of conversion s.
sample_bit(s, k) == (s \div Pow2(k)) % 2 = 1

\* pin_read: (*pin.reg & (1U << pin.bit)) != 0, as the integer C adds.
pin_read(level) == IF level THEN 1 ELSE 0

\* The final shift with the result kept unsigned (bit 23 not the sign).
results_shl8_unsigned(v) == (v % 8388608) * 256

\* results[i] <<= 8U on int32_t: the low 24 bits move up, bit 23 becomes the
\* sign bit (two's complement, as the compiler of the build defines it).
results_shl8(v) ==
    LET low == v % 16777216
    IN  IF low >= 8388608 THEN (low - 16777216) * 256 ELSE low * 256

SamplerUnchanged == UNCHANGED <<pvars, svars, crc_test>>

\* A sensor with the clock low finishes a conversion and pulls its data
\* line low.
SensorReady(l, s) ==
    /\ ~hx.sck
    /\ ~hx.ready[l]
    /\ hx' = [hx EXCEPT !.ready[l] = TRUE, !.sample[l] = s, !.dout[l] = FALSE]
    /\ SamplerUnchanged

\* platform_load_cell_read -> read_hx711_gain128.
LoadCellRead ==
    /\ hx.pc = 0
    /\ hx' = [hx EXCEPT !.pc = 145, !.h = NoSamplerHistory]
    /\ SamplerUnchanged

\* Line 145: pin_write(pin_sck, false).
SckLowFirst ==
    /\ hx.pc = 145
    /\ hx' = [hx EXCEPT !.sck = FALSE, !.pc = 151]
    /\ SamplerUnchanged

\* Lines 151-152: busy = false; i = 0.
PollStart ==
    /\ hx.pc = 151
    /\ hx' = [hx EXCEPT !.busy = FALSE, !.i = 0, !.h.pass_low = {},
                        !.pc = IF 0 < PLATFORM_LOAD_CELL_COUNT THEN 154
                               ELSE 156]
    /\ SamplerUnchanged

\* Line 154: busy = busy || pin_read(pins_data[i]); the read is skipped once
\* busy is true.
PollRead ==
    /\ hx.pc = 154
    /\ LET read == ~hx.busy
           level == hx.dout[hx.i]
       IN  hx' = [hx EXCEPT
                    !.busy = hx.busy \/ pin_read(level) # 0,
                    !.h.pass_low = IF read /\ ~level THEN @ \cup {hx.i}
                                   ELSE @,
                    !.i = @ + 1,
                    !.pc = IF hx.i + 1 < PLATFORM_LOAD_CELL_COUNT THEN 154
                           ELSE 156]
    /\ SamplerUnchanged

\* The polling loop left after one pass, ready or not.
PollCheck_no_wait ==
    /\ hx.pc = 156
    /\ hx' = [hx EXCEPT !.pc = 159, !.h.waited = @ \/ hx.busy]
    /\ SamplerUnchanged

\* Line 156: while (busy).
PollCheck ==
    /\ hx.pc = 156
    /\ hx' = [hx EXCEPT !.pc = IF hx.busy THEN 151 ELSE 159,
                        !.h.waited = @ \/ hx.busy]
    /\ SamplerUnchanged

\* Lines 159-161: memset(results, 0, ...); i = 0.
ClearResults ==
    /\ hx.pc = 159
    /\ hx' = [hx EXCEPT !.results = [l \in Lines |-> 0], !.i = 0,
                        !.pc = IF 0 < num_bits THEN 163 ELSE 174]
    /\ SamplerUnchanged

\* Lines 163-165: pin_write(pin_sck, true); j = 0.  On the rising edge every
\* sensor presents the next bit of its conversion, most significant first.
SckRise ==
    /\ hx.pc = 163
    /\ hx' = [hx EXCEPT
                !.sck = TRUE,
                !.dout = [l \in Lines |->
                             IF hx.h.edges < 24
                             THEN sample_bit(hx.sample[l], 23 - hx.h.edges)
                             ELSE TRUE],
                !.j = 0,
                !.h.edges = @ + 1,
                !.h.reads = [l \in Lines |-> 0],
                !.pc = IF 0 < PLATFORM_LOAD_CELL_COUNT THEN 167 ELSE 170]
    /\ SamplerUnchanged

\* Lines 167-168: results[j] *= 2; results[j] += pin_read(pins_data[j]).
ReadBit ==
    /\ hx.pc = 167
    /\ LET bit == pin_read(hx.dout[hx.j])
       IN  hx' = [hx EXCEPT
                    !.results[hx.j] = @ * 2 + bit,
                    !.h.reads[hx.j] = @ + 1,
                    !.h.bits[hx.j] = Append(@, bit),
                    !.h.low_reads = IF hx.sck THEN @ ELSE @ + 1,
                    !.j = @ + 1,
                    !.pc = IF hx.j + 1 < PLATFORM_LOAD_CELL_COUNT THEN 167
                           ELSE 170]
    /\ SamplerUnchanged

\* Lines 170, 161: pin_write(pin_sck, false); i++.
SckFall ==
    /\ hx.pc = 170
    /\ hx' = [hx EXCEPT !.sck = FALSE, !.i = @ + 1,
                        !.pc = IF hx.i + 1 < num_bits THEN 163 ELSE 174]
    /\ SamplerUnchanged

\* Line 174: pin_write(pin_sck, true), the 25th pulse; the data lines may
\* take any level during it.
GainPulseRise(level) ==
    /\ hx.pc = 174
    /\ hx' = [hx EXCEPT !.sck = TRUE, !.dout = level,
                        !.h.edges = @ + 1,
                        !.h.reads = [l \in Lines |-> 0],
                        !.h.level25 = level,
                        !.h.value = hx.sample,
                        !.pc = 176]
    /\ SamplerUnchanged

\* Lines 176, 179: pin_write(pin_sck, false); i = 0.  The sensors start the
\* next conversion and release their data lines.
GainPulseFall ==
    /\ hx.pc = 176
    /\ hx' = [hx EXCEPT !.sck = FALSE,
                        !.ready = [l \in Lines |-> FALSE],
                        !.dout = [l \in Lines |-> TRUE],
                        !.i = 0,
                        !.pc = IF 0 < PLATFORM_LOAD_CELL_COUNT THEN 181 ELSE 0,
                        !.h.done = ~(0 < PLATFORM_LOAD_CELL_COUNT)]
    /\ SamplerUnchanged

\* Line 181: results[i] <<= 8U; the function returns after the last one.
ShiftResult ==
    /\ hx.pc = 181
    /\ LET last == ~(hx.i + 1 < PLATFORM_LOAD_CELL_COUNT)
       IN  hx' = [hx EXCEPT !.results[hx.i] = results_shl8(@),
                            !.i = @ + 1,
                            !.pc = IF last THEN 0 ELSE 181,
                            !.h.done = last]
    /\ SamplerUnchanged

NextSampler ==
    \/ \E l \in Lines : \E s \in Samples : SensorReady(l, s)
    \/ LoadCellRead
    \/ SckLowFirst
    \/ PollStart
    \/ PollRead
    \/ PollCheck
    \/ ClearResults
    \/ SckRise
    \/ ReadBit
    \/ SckFall
    \/ \E level \in [Lines -> BOOLEAN] : GainPulseRise(level)
    \/ GainPulseFall
    \/ ShiftResult

SpecSampler == InitPacket /\ [][NextSampler]_vars

\* --------------------------------------------------------- sampler claims
\* The number a sequence of bits spells, most significant bit first.
RECURSIVE MsbFirst(_)
MsbFirst(bits) ==
    IF bits = <<>> THEN 0
    ELSE 2 * MsbFirst(SubSeq(bits, 1, Len(bits) - 1)) + bits[Len(bits)]

\* A 24-bit two's complement value as a signed number.
Signed24(v) == IF v >= 8388608 THEN v - 16777216 ELSE v

\* C13: when read_hx711_gain128 has returned, results[j] is the 24-bit value
\* assembled most-significant-bit first from the bits presented on data line
\* j during the 24 data pulses, shifted left by 8 as a signed 32-bit value
\* (bit 23 is the sign, the low 8 bits are zero), whatever the level of the
\* data lines during the 25th pulse.
C13_SamplerResult ==
    hx.h.done =>
        \A l \in Lines :
            /\ Len(hx.h.bits[l]) = 24
            /\ \A k \in 1..24 :
                   hx.h.bits[l][k] = (hx.h.value[l] \div Pow2(24 - k)) % 2
            /\ hx.results[l] = Signed24(MsbFirst(hx.h.bits[l])) * 256
            /\ hx.results[l] = Signed24(hx.h.value[l]) * 256
            /\ hx.results[l] % 256 = 0
            /\ (hx.results[l] < 0) = (hx.h.bits[l][1] = 1)

C13_Witness ==
    /\ hx.h.done /\ hx.pc = 0
    /\ hx.h.value[0] = 8388608 /\ hx.results[0] = -2147483647 - 1
    /\ hx.h.value[1] = 11259375 /\ hx.results[1] = -1412567296
    /\ hx.h.level25[0] /\ ~hx.h.level25[1]


\* ------------------------------------------------------------ CRC harness
\* "123456789", the message of test_crc.
CheckString == <<49, 50, 51, 52, 53, 54, 55, 56, 57>>

\* The two CRC bytes least-significant byte first.
crc_little_endian(crc) == << crc % 256, crc \div 256 >>

\* {(uint8_t) (crc >> 8U), (uint8_t) (crc & 0xFFU)}.
crc_big_endian(crc) == << crc \div 256, crc % 256 >>

CrcUnchanged == UNCHANGED <<pvars, svars, hx>>

\* The harness starts from the initial value with the empty message or with
\* the check string.
CrcInit ==
    /\ PacketInit /\ SerialInit /\ SamplerInit
    /\ \E m \in {<<>>, CheckString} : crc_test = [NoCrcTest EXCEPT !.msg = m]

\* One more byte of input, before any folding.
CrcGrow(b) ==
    /\ crc_test.pos = 0
    /\ ~crc_test.appended
    /\ Len(crc_test.msg) < MaxCrcLen
    /\ crc_test' = [crc_test EXCEPT !.msg = Append(@, b)]
    /\ CrcUnchanged

\* crc16_ccitt_false_add_byte on the next byte of the message.
CrcAddByte ==
    /\ crc_test.pos < Len(crc_test.msg)
    /\ crc_test' = [crc_test EXCEPT
                      !.crc = crc16_ccitt_false_add_byte(
                                  @, crc_test.msg[crc_test.pos + 1]),
                      !.pos = @ + 1]
    /\ CrcUnchanged

\* crc16_ccitt_false_add on the next size bytes of the message.
CrcAddChunk(size) ==
    /\ crc_test.pos + size <= Len(crc_test.msg)
    /\ LET data == SubSeq(crc_test.msg, crc_test.pos + 1, crc_test.pos + size)
       IN  crc_test' = [crc_test EXCEPT
                          !.crc = crc16_ccitt_false_add(@, size, data),
                          !.pos = @ + size]
    /\ CrcUnchanged

\* The CRC of the message follows the message through the accumulator.
CrcAppendCheck ==
    /\ crc_test.pos = Len(crc_test.msg)
    /\ ~crc_test.appended
    /\ crc_test' = [crc_test EXCEPT
                      !.crc = crc16_ccitt_false_add(
                                  @, 2, crc_big_endian(crc_test.crc)),
                      !.appended = TRUE]
    /\ CrcUnchanged

NextCrc ==
    \/ \E b \in CrcBytes : CrcGrow(b)
    \/ CrcAddByte
    \/ \E size \in 2..MaxCrcLen : CrcAddChunk(size)
    \/ CrcAppendCheck

SpecCrc == CrcInit /\ [][NextCrc]_vars

\* C14: a message followed by its own CRC, most-significant byte first,
\* folds from 0xFFFF to the residue 0x0000; the fold of the ASCII bytes
\* 123456789 is 0x29B1; folding zero bytes returns the input value.
C14_CrcResidue ==
    /\ crc_test.appended => crc_test.crc = 0
    /\ (crc_test.pos = Len(crc_test.msg) /\ ~crc_test.appended) =>
           /\ Len(crc_test.msg) <= MaxCrcLen =>
                  crc_test.crc = crc16_ccitt_false_add(
                                     65535, Len(crc_test.msg), crc_test.msg)
           /\ crc_test.msg = CheckString => crc_test.crc = 10673
           /\ crc_test.msg = <<>> => crc_test.crc = 65535
           /\ crc_test.msg = <<49>> => crc_test.crc = 51074
    /\ crc16_ccitt_false_add(crc_test.crc, 0, <<>>) = crc_test.crc

C14_Witness ==
    /\ crc_test.appended
    /\ crc_test.msg = CheckString
    /\ crc_test.crc = CRC16_CCITT_FALSE_RESIDUE


\* -------------------------------------------------- both serial directions
\* The main loop of main.c both writes packets and drains the RX ring buffer.
\* Three workloads: receiving only; transmitting with no byte received before
\* the first write; one byte arriving while a transmission is under way.
SerialRxOnly ==
    /\ txh.calls = 0
    /\ NextRx

SerialTx ==
    /\ Len(rxh.popped) = 0
    /\ pc \notin {59, 60, 71}
    /\ IF txh.calls = 0 THEN rxh.received = 0 ELSE rxh.received <= 1
    /\ NextTx

SerialRxDuringTx ==
    /\ txh.calls > 0
    /\ rxh.received = 0
    /\ \E val \in RxBytes : \E fe \in BOOLEAN : \E pe \in BOOLEAN :
           RxIsr(val, fe, pe)

NextSerial ==
    \/ SerialRxOnly
    \/ SerialTx
    \/ SerialRxDuringTx

SpecSerial == InitPacket /\ [][NextSerial]_vars

\* ---------------------------------------------------- serial safety claims
FifoInvariant(f) ==
    /\ 0 <= f.len /\ f.len <= f.bufsize
    /\ 0 <= f.in /\ f.in < f.bufsize
    /\ 0 <= f.out /\ f.out < f.bufsize
    /\ f.in = (f.out + f.len) % f.bufsize

\* C15: in every reachable state of each ring buffer, whatever the
\* interleaving of pushes, pops and length reads of the main context and the
\* handlers, 0 <= len <= capacity, both indices are within [0, capacity) and
\* the write index equals (read index + len) mod capacity.
C15_RingBufferInvariant ==
    /\ FifoInvariant(g_fifo_tx)
    /\ FifoInvariant(g_fifo_rx)

C15_Witness ==
    /\ rxh.overflow
    /\ g_fifo_rx.len = g_fifo_rx.bufsize
    /\ g_fifo_rx.in = g_fifo_rx.out /\ g_fifo_rx.in = 1
    /\ pc = 60

\* The main context is after the cli and before the SREG restore of
\* fifo_pop, fifo_push, fifo_len or platform_serial_write.
InFifoCritical == pc \in {60, 71, 35, 52, 79, 80}
InWriteCritical ==
    \/ pc \in {86, 232}
    \/ pc \in {77, 78, 79, 80} /\ loc.ret = 86
\* A handler runs in this step.
IsrStep ==
    \/ rxh'.received = rxh.received + 1
    \/ usart.txc /\ ~usart'.txc

\* C16: no handler runs while the main context is inside the critical
\* section of fifo_push, fifo_pop or fifo_len; the fifo_len nested in
\* platform_serial_write's critical section leaves interrupts disabled, so
\* no transmit-complete handler runs between the idle check and the direct
\* write to UDR0.
C16_CriticalSections ==
    /\ []((InFifoCritical \/ InWriteCritical) => ~SREG_I)
    /\ [][IsrStep => ~(InFifoCritical \/ InWriteCritical)]_vars

C16_Witness ==
    /\ pc = 86 /\ ~SREG_I
    /\ usart.txc
    /\ loc.retval = 0
    /\ rxh.received = 1


\* The clock pin rises, or falls, in this step.
RisingEdge == ~hx.sck /\ hx'.sck
FallingEdge == hx.sck /\ ~hx'.sck

\* C20: in every acquisition read_hx711_gain128 first drives the clock low,
\* raises it only after one polling pass has read every data line low, makes
\* exactly 25 rising edges, reads every data line exactly once during each of
\* the first 24 pulses, with the clock high, and not at all during the 25th,
\* and returns with the clock low; until a polling pass has read every data
\* line low it neither completes nor touches the results.
C20_SamplerClocking ==
    /\ [](/\ hx.pc \in {151, 154, 156, 159} => ~hx.sck /\ hx.h.edges = 0
          /\ hx.h.edges <= 25
          /\ hx.h.low_reads = 0
          /\ \A l \in Lines : hx.h.reads[l] <= 1
          /\ hx.h.done =>
                 /\ hx.pc = 0 /\ ~hx.sck
                 /\ hx.h.edges = 25
                 /\ hx.h.pass_low = Lines
                 /\ \A l \in Lines : Len(hx.h.bits[l]) = 24)
    /\ [][/\ RisingEdge =>
                 /\ hx.h.pass_low = Lines
                 /\ hx'.h.edges = hx.h.edges + 1
          /\ hx'.h.edges # hx.h.edges => RisingEdge \/ hx.pc = 0
          /\ (FallingEdge /\ hx.h.edges > 0) =>
                 \A l \in Lines :
                     hx.h.reads[l] = IF hx.h.edges <= 24 THEN 1 ELSE 0
          /\ hx.pc \in {145, 151, 154, 156} =>
                 /\ hx'.results = hx.results
                 /\ ~hx'.h.done]_vars

C20_Witness ==
    /\ hx.h.done /\ hx.pc = 0 /\ ~hx.sck
    /\ hx.h.waited
    /\ hx.h.edges = 25
    /\ hx.results[0] = 256

\* ------------------------------------------------- writes of any length
\* packet_send(0, payload, platform_serial_write), packet.h lines 33-38: the
\* next of the three calls of the writer, with the header, the empty payload
\* and the CRC.
PacketWriteCall ==
    /\ pc = 0
    /\ txh.calls = txh.chunk
    /\ txh.chunk < 3
    /\ LET data == packet_send(0, <<>>)[txh.chunk + 1]
       IN  /\ loc' = [NoLocals EXCEPT !.data = data, !.idx = 1,
                                      !.remaining = Len(data),
                                      !.sreg_w = SREG_I]
           /\ txh' = [txh EXCEPT !.written = @ \o data, !.calls = @ + 1,
                                 !.chunk = @ + 1]
    /\ pc' = 226
    /\ UNCHANGED <<g_fifo_tx, g_fifo_rx, SREG_I, usart, rxh>>
    /\ UNCHANGED <<pvars, ovars>>

\* The main context either makes platform_serial_write calls of any size,
\* zero included, or sends one packet with an empty payload.
NextTxAny ==
    \/ \E size \in 0..MaxWriteSize : txh.chunk = 0 /\ WriteCall(size)
    \/ PacketWriteCall
    \/ WriteCli \/ LenSave \/ LenCli \/ LenRead \/ LenRestore
    \/ WriteFirst \/ WriteRestore \/ WriteLoop \/ WriteWait
    \/ PushCli \/ PushBody \/ PushRestore \/ TxIsr \/ HwShiftDone

SpecTxAny == InitPacket /\ [][NextTxAny]_vars

\* C21: a platform_serial_write call never hands more bytes to the transport
\* (direct write plus pushes) than it was given, so a call of size 0 hands
\* over none; when a call has returned exactly the bytes given so far have
\* been handed over; and when packet_send with an empty payload has returned
\* exactly the 10 bytes of its frame have been handed over.
C21_ZeroLengthWrite ==
    /\ Len(txh.handed) <= Len(txh.written)
    /\ (pc = 0) => (Len(txh.handed) = Len(txh.written))
    /\ (pc = 0 /\ txh.chunk = 3) =>
           (txh.handed = cb_write(<<>>, packet_send(0, <<>>)))

====
